---- MODULE Spec2Model ----
(***************************************************************************)
(* Barcode generator: the validation front end (validateCodes and the two  *)
(* IPC handlers that feed it), the generate-document pipeline of main.js   *)
(* and the three grid layout loops (Word table, PDF pages, Excel sheet).   *)
(*                                                                         *)
(* A code is a sequence of one-character strings; a raw text is a sequence *)
(* of characters that may hold line breaks.                                *)
(***************************************************************************)
EXTENDS Integers, Sequences, FiniteSets, TLC

VARIABLES
    codesText,               \* the raw text under test handed to the handlers
    mockSaveDialogResponse,  \* main.js:10
    invocations,             \* generate-document invocations, by slot
    completed,               \* the handler invocation that returned last
    lay,                     \* the frame of the running layout loop
    fileNaming               \* the frame of the default file name computation

vars == <<codesText, mockSaveDialogResponse, invocations, completed, lay, fileNaming>>

----------------------------------------------------------------------------
(* Bounds *)

MaxTextLen == 5
MaxInvocations == 2
MaxCodes == 21
MaxColumns == 7
MaxHours == 48

----------------------------------------------------------------------------
(* Characters and texts *)

LineBreak == "\n"
Alphabet == {"0", "1", "x", " ", LineBreak}
\* String.prototype.trim strips white space and line terminators
WhiteSpace == {" ", "\t", "\r", LineBreak}
\* \d of a JavaScript regular expression: the ASCII digits only
DigitChars == {"0", "1", "2", "3", "4", "5", "6", "7", "8", "9"}

Texts == UNION {[1..k -> Alphabet] : k \in 0..MaxTextLen}

\* codesText.split('\n')
RECURSIVE SplitFrom(_, _, _, _)
SplitFrom(text, k, cur, acc) ==
    IF k > Len(text) THEN Append(acc, cur)
    ELSE IF text[k] = LineBreak
         THEN SplitFrom(text, k + 1, <<>>, Append(acc, cur))
         ELSE SplitFrom(text, k + 1, Append(cur, text[k]), acc)

Split(text) == SplitFrom(text, 1, <<>>, <<>>)

RECURSIVE TrimStart(_)
TrimStart(s) ==
    IF s # <<>> /\ Head(s) \in WhiteSpace THEN TrimStart(Tail(s)) ELSE s

RECURSIVE TrimEnd(_)
TrimEnd(s) ==
    IF s # <<>> /\ s[Len(s)] \in WhiteSpace
    THEN TrimEnd(SubSeq(s, 1, Len(s) - 1))
    ELSE s

\* c => c.trim()
Trim(s) == TrimEnd(TrimStart(s))

\* c => c.length > 0
NonEmpty(c) == Len(c) > 0

ParseCodesFilterFirst(text) ==
    LET kept == SelectSeq(Split(text), NonEmpty)
    IN [k \in 1..Len(kept) |-> Trim(kept[k])]

\* .split('\n').map(c => c.trim()).filter(c => c.length > 0)
ParseCodes(text) ==
    LET lines == Split(text)
        trimmed == [k \in 1..Len(lines) |-> Trim(lines[k])]
    IN SelectSeq(trimmed, NonEmpty)

----------------------------------------------------------------------------
(* validateCodes *)

\* the pattern 0\d tried at one position of the string
MatchAt(code, pos) ==
    /\ pos + 1 <= Len(code)
    /\ code[pos] = "0"
    /\ code[pos + 1] \in DigitChars

UnanchoredTest(code) == \E pos \in 1..Len(code) : MatchAt(code, pos)

\* /^0\d/.test(code): ^ without the m flag anchors at the start of the string
RegexTest(code) == MatchAt(code, 1)

\* `Code "${code}" has a leading zero`
Message(code) == <<"Code \"", code, "\" has a leading zero">>

ErrorAtIndex(code, index) ==
    [line |-> index, code |-> code, message |-> Message(code)]

\* { line: index + 1, code, message }
ErrorEntry(code, index) ==
    [line |-> index + 1, code |-> code, message |-> Message(code)]

\* codes.forEach((code, index) => { if (...) errors.push(...) })
RECURSIVE ForEachFrom(_, _, _)
ForEachFrom(codes, index, errors) ==
    IF index >= Len(codes) THEN errors
    ELSE LET code == codes[index + 1]
         IN ForEachFrom(codes, index + 1,
                IF RegexTest(code)
                THEN Append(errors, ErrorEntry(code, index))
                ELSE errors)

validateCodesSharedErrors(codes) == ForEachFrom(codes, 0, completed.errors)

\* const errors = []; codes.forEach(...); return errors
validateCodes(codes) == ForEachFrom(codes, 0, <<>>)

----------------------------------------------------------------------------
(* Word layout of createDocument *)

columnsPerRowDefault == 7
cellWidth == 1543
barcodeWidth == 63
barcodeHeight == 26

\* { style: BorderStyle.NONE, size: 0, color: "FFFFFF" }
noBorder == [style |-> "none", size |-> 0, color |-> "FFFFFF"]
cellBorders == [top |-> noBorder, bottom |-> noBorder, left |-> noBorder, right |-> noBorder]

\* bwipjs.toBuffer({ bcid: 'code128', text: code, ... }): the image of the text
Png(code) == [bcid |-> "code128", text |-> code]

\* barcodes.push({ code, buffer: pngBuffer })
Barcode(code) == [code |-> code, buffer |-> Png(code)]

\* the occupied TableCell built for barcodes[idx]: image paragraph over text paragraph
BarcodeCell(idx, item) ==
    [kind |-> "barcode", idx |-> idx, width |-> cellWidth, borders |-> cellBorders,
     image |-> [data |-> item.buffer, width |-> barcodeWidth, height |-> barcodeHeight],
     text |-> item.code,
     \* alignment: AlignmentType.CENTER of both paragraphs; spacing: { before: 20 }
     imageAlignment |-> "center", textAlignment |-> "center", textSpacingBefore |-> 20,
     \* margins: { top: 140, bottom: 140, left: 140, right: 140 }
     margins |-> [top |-> 140, bottom |-> 140, left |-> 140, right |-> 140]]

\* the padding TableCell
EmptyCell == [kind |-> "empty", width |-> cellWidth, borders |-> cellBorders]

CellIndexOffByOne(i, j) == i + j + 1

\* const idx = i + j
CellIndex(i, j) == i + j

WordRowCellsNoPadding(barcodes, i, columnsPerRow) ==
    [col \in 1..(IF Len(barcodes) - i < columnsPerRow
                 THEN Len(barcodes) - i ELSE columnsPerRow) |->
        BarcodeCell(CellIndex(i, col - 1), barcodes[CellIndex(i, col - 1) + 1])]

WordRowCellsDropsLast(barcodes, i, columnsPerRow) ==
    [col \in 1..columnsPerRow |->
        LET idx == CellIndex(i, col - 1)
        IN IF idx < Len(barcodes) - 1
           THEN BarcodeCell(idx, barcodes[idx + 1])
           ELSE EmptyCell]

\* the inner loop: for (let j = 0; j < columnsPerRow; j++)
WordRowCells(barcodes, i, columnsPerRow) ==
    [col \in 1..columnsPerRow |->
        LET idx == CellIndex(i, col - 1)
        IN IF idx < Len(barcodes)
           THEN BarcodeCell(idx, barcodes[idx + 1])
           ELSE EmptyCell]

RECURSIVE WordRowsFromInclusive(_, _, _, _)
WordRowsFromInclusive(barcodes, i, columnsPerRow, rows) ==
    IF i <= Len(barcodes)
    THEN WordRowsFromInclusive(barcodes, i + columnsPerRow, columnsPerRow,
                               Append(rows, WordRowCells(barcodes, i, columnsPerRow)))
    ELSE rows

\* the outer loop: for (let i = 0; i < barcodes.length; i += columnsPerRow)
RECURSIVE WordRowsFrom(_, _, _, _)
WordRowsFrom(barcodes, i, columnsPerRow, rows) ==
    IF i < Len(barcodes)
    THEN WordRowsFrom(barcodes, i + columnsPerRow, columnsPerRow,
                      Append(rows, WordRowCells(barcodes, i, columnsPerRow)))
    ELSE rows

WordRowsKeptAcrossCalls(barcodes, columnsPerRow) ==
    WordRowsFrom(barcodes, 0, columnsPerRow,
                 IF completed.buffer.type = "Buffer" THEN completed.buffer.doc.rows ELSE <<>>)

\* const rows = []; the outer loop; rows
WordRows(barcodes, columnsPerRow) == WordRowsFrom(barcodes, 0, columnsPerRow, <<>>)

\* new Document({ sections: [{ ..., children: [new Table({ ... })] }] })
WordDocument(barcodes, columnsPerRow) ==
    [type |-> "Document",
     columnWidths |-> [k \in 1..columnsPerRow |-> cellWidth],
     rows |-> WordRows(barcodes, columnsPerRow)]

NoDoc == [type |-> "none"]
NoBuffer == [type |-> "none"]

\* leading bytes of each container: a ZIP package starts "PK", a PDF "%PDF"
ZipSignature == <<80, 75>>
PdfSignature == <<37, 80, 68, 70>>

\* Packer.toBuffer(doc): the serialized .docx package
PackerToBuffer(doc) == [type |-> "Buffer", kind |-> "docx", head |-> ZipSignature, doc |-> doc]

----------------------------------------------------------------------------
(* PDF and Excel layouts of the examples script *)

pageWidth == 612
pageHeight == 792
margin == 36
cellHeight == 50
usableWidthOneMargin == pageWidth - margin

\* const usableWidth = pageWidth - (margin * 2)
usableWidth == pageWidth - (margin * 2)

\* a length that is a quotient: cellWidth = usableWidth / columnsPerRow
Fraction(num, den) == [num |-> num, den |-> den]

\* the image and the label drawn for barcodes[idx] in column j at currentY
PdfPlacement(idx, item, j, columnsPerRow, currentY, page) ==
    [idx |-> idx, code |-> item.code, image |-> item.buffer, page |-> page, col |-> j,
     \* x = margin + (j * cellWidth)
     x |-> Fraction(margin * columnsPerRow + j * usableWidth, columnsPerRow),
     \* centerX = x + (cellWidth - barcodeWidth) / 2
     imageX |-> Fraction(2 * (margin * columnsPerRow + j * usableWidth)
                            + usableWidth - barcodeWidth * columnsPerRow,
                         2 * columnsPerRow),
     imageY |-> currentY,
     imageWidth |-> barcodeWidth, imageHeight |-> barcodeHeight,
     textX |-> Fraction(margin * columnsPerRow + j * usableWidth, columnsPerRow),
     textY |-> currentY + barcodeHeight + 2,
     textWidth |-> Fraction(usableWidth, columnsPerRow),
     align |-> "center"]

\* the inner loop of createPdfDocument: for (let j = 0; j < columnsPerRow; j++)
RECURSIVE PdfCellsFrom(_, _, _, _, _, _, _)
PdfCellsFrom(barcodes, i, j, columnsPerRow, currentY, page, drawn) ==
    IF j < columnsPerRow
    THEN LET idx == CellIndex(i, j)
         IN PdfCellsFrom(barcodes, i, j + 1, columnsPerRow, currentY, page,
                IF idx < Len(barcodes)
                THEN Append(drawn, PdfPlacement(idx, barcodes[idx + 1], j,
                                                columnsPerRow, currentY, page))
                ELSE drawn)
    ELSE drawn

PdfRowPlacementsPadded(barcodes, i, columnsPerRow, currentY, page) ==
    [col \in 1..columnsPerRow |->
        LET idx == IF CellIndex(i, col - 1) < Len(barcodes)
                   THEN CellIndex(i, col - 1) ELSE Len(barcodes) - 1
        IN PdfPlacement(idx, barcodes[idx + 1], col - 1, columnsPerRow, currentY, page)]

PdfRowPlacements(barcodes, i, columnsPerRow, currentY, page) ==
    PdfCellsFrom(barcodes, i, 0, columnsPerRow, currentY, page, <<>>)

PageIsFullNoMargin(currentY) == currentY + cellHeight > pageHeight

\* if (currentY + cellHeight > pageHeight - margin)
PageIsFull(currentY) == currentY + cellHeight > pageHeight - margin

\* the outer loop of createPdfDocument; out.rows logs, for every row, the page
\* and the currentY it is drawn at and whether doc.addPage() came before it
RECURSIVE PdfRowsFrom(_, _, _, _, _, _)
PdfRowsFrom(barcodes, i, columnsPerRow, currentY, page, out) ==
    IF i < Len(barcodes)
    THEN LET addPage == PageIsFull(currentY)
             y == IF addPage THEN margin ELSE currentY
             pg == IF addPage THEN page + 1 ELSE page
         IN PdfRowsFrom(barcodes, i + columnsPerRow, columnsPerRow, y + cellHeight, pg,
                [placements |-> out.placements
                                    \o PdfRowPlacements(barcodes, i, columnsPerRow, y, pg),
                 rows |-> Append(out.rows,
                                 [page |-> pg, y |-> y, addPage |-> addPage,
                                  yBefore |-> currentY]),
                 pages |-> pg])
    ELSE out

\* let currentY = margin; the document opens on its first page
PdfLayout(barcodes, columnsPerRow) ==
    PdfRowsFrom(barcodes, 0, columnsPerRow, margin, 1,
                [placements |-> <<>>, rows |-> <<>>, pages |-> 1])

excelColumnWidth == 15
excelImageRowHeight == 45
excelTextRowHeight == 15
excelImageWidth == 85
excelImageHeight == 35

\* the width in pixels of a sheet column of width excelColumnWidth: the OOXML
\* rule trunc((256 * width + trunc(128 / 7)) / 256 * 7) at the maximum digit
\* width 7 of the default font
excelColumnPixels == ((256 * excelColumnWidth + (128 \div 7)) * 7) \div 256

\* the image and the label cell written for barcodes[idx] in column j
ExcelPlacement(idx, item, j, rowIndex) ==
    [idx |-> idx, code |-> item.code, image |-> item.buffer, page |-> 1,
     \* tl: { col: j + 0.1, row: rowIndex - 1 + 0.1 }, in tenths
     imageColTenths |-> 10 * j + 1,
     imageRowTenths |-> 10 * (rowIndex - 1) + 1,
     imageWidth |-> excelImageWidth, imageHeight |-> excelImageHeight,
     \* worksheet.getCell(rowIndex + 1, col) with col = j + 1
     textRow |-> rowIndex + 1, textCol |-> j + 1,
     align |-> "center"]

\* the inner loop of createExcelDocument: for (let j = 0; j < columnsPerRow; j++)
RECURSIVE ExcelCellsFrom(_, _, _, _, _, _)
ExcelCellsFrom(barcodes, i, j, columnsPerRow, rowIndex, written) ==
    IF j < columnsPerRow
    THEN LET idx == CellIndex(i, j)
         IN ExcelCellsFrom(barcodes, i, j + 1, columnsPerRow, rowIndex,
                IF idx < Len(barcodes)
                THEN Append(written, ExcelPlacement(idx, barcodes[idx + 1], j, rowIndex))
                ELSE written)
    ELSE written

ExcelRowPlacements(barcodes, i, columnsPerRow, rowIndex) ==
    ExcelCellsFrom(barcodes, i, 0, columnsPerRow, rowIndex, <<>>)

RECURSIVE ExcelRowsFromStepOne(_, _, _, _, _)
ExcelRowsFromStepOne(barcodes, i, columnsPerRow, rowIndex, out) ==
    IF i < Len(barcodes)
    THEN ExcelRowsFromStepOne(barcodes, i + columnsPerRow, columnsPerRow, rowIndex + 1,
             [placements |-> out.placements
                                 \o ExcelRowPlacements(barcodes, i, columnsPerRow, rowIndex),
              heights |-> out.heights \o <<excelImageRowHeight, excelTextRowHeight>>,
              pages |-> 1])
    ELSE out

\* the outer loop of createExcelDocument; out.heights are the row heights set
RECURSIVE ExcelRowsFrom(_, _, _, _, _)
ExcelRowsFrom(barcodes, i, columnsPerRow, rowIndex, out) ==
    IF i < Len(barcodes)
    THEN ExcelRowsFrom(barcodes, i + columnsPerRow, columnsPerRow, rowIndex + 2,
             [placements |-> out.placements
                                 \o ExcelRowPlacements(barcodes, i, columnsPerRow, rowIndex),
              heights |-> out.heights \o <<excelImageRowHeight, excelTextRowHeight>>,
              pages |-> 1])
    ELSE out

\* let rowIndex = 1
ExcelLayout(barcodes, columnsPerRow) ==
    ExcelRowsFrom(barcodes, 0, columnsPerRow, 1,
                  [placements |-> <<>>, heights |-> <<>>, pages |-> 1])

\* for (const code of codes) barcodes.push({ code, buffer: await generateBarcode(code) })
RenderAll(codes) == [k \in 1..Len(codes) |-> Barcode(codes[k])]

----------------------------------------------------------------------------
(* Values of the generate-document pipeline *)

Formats == {"docx", "pdf", "xlsx"}
Paths == {"a.docx", "b.pdf"}

\* JavaScript null and undefined
Null == [type |-> "null"]
Undefined == "undefined"

\* what the e2e handler is given: { canceled: true } or { filePath, canceled: false }
MockResponses ==
    { [canceled |-> TRUE],
      [filePath |-> "a.docx", canceled |-> FALSE],
      [filePath |-> "", canceled |-> FALSE] }

\* what dialog.showSaveDialog resolves to
DialogResults ==
    {[filePath |-> "", canceled |-> TRUE]} \cup {[filePath |-> p, canceled |-> FALSE] : p \in Paths}

\* property reads of a response object: a missing property reads as undefined
FilePathOf(response) ==
    IF "filePath" \in DOMAIN response THEN response.filePath ELSE Undefined

FalsyUndefinedOnly(filePath) == filePath = Undefined

\* !filePath: undefined and the empty string are falsy
Falsy(filePath) == filePath \in {Undefined, ""}

\* messages of the errors the collaborators throw
RenderMessage == "bwip-js: bad text"
PackMessage == "docx: pack failed"
WriteMessage == "EACCES: permission denied"

NoDest == [type |-> "none"]

IdleInvocation ==
    [pc |-> "idle", format |-> "", codes |-> <<>>, barcodes |-> <<>>,
     doc |-> NoDoc, buffer |-> NoBuffer]

NoneCompleted ==
    [pc |-> "none", format |-> "", codes |-> <<>>, errors |-> <<>>, barcodes |-> <<>>,
     buffer |-> NoBuffer, asked |-> FALSE, dest |-> NoDest, fsWrites |-> <<>>,
     result |-> Null]

\* the requests the pipeline is driven with: raw text and the format the caller passes
SampleRequests ==
    { [text |-> <<"0", "1", LineBreak, LineBreak, "0", "0">>, format |-> "docx"],
      [text |-> <<"x", LineBreak, "0", "1">>, format |-> "xlsx"],
      [text |-> <<" ", "x", "1", LineBreak, "x", "1", LineBreak, "x", "0", " ">>,
       format |-> "pdf"],
      [text |-> <<" ", LineBreak>>, format |-> "docx"] }

Slots == 1..MaxInvocations

----------------------------------------------------------------------------
(* The IPC handlers *)

\* ipcMain.handle('validate-codes', ...)
ValidateCodes(text) ==
    /\ LET codes == ParseCodes(text)
           errors == validateCodes(codes)
       IN completed' = [NoneCompleted EXCEPT !.pc = "validated", !.codes = codes,
                            !.errors = errors,
                            !.result = [codes |-> codes, errors |-> errors]]
    /\ UNCHANGED <<codesText, mockSaveDialogResponse, invocations, lay, fileNaming>>

\* setMockSaveDialog(response), through 'e2e:set-mock-save-dialog'
SetMockSaveDialog(response) ==
    /\ mockSaveDialogResponse' = response
    /\ UNCHANGED <<codesText, invocations, completed, lay, fileNaming>>

\* clearMockSaveDialog(), through 'e2e:clear-mock-save-dialog'
ClearMockSaveDialog ==
    /\ mockSaveDialogResponse' = Null
    /\ UNCHANGED <<codesText, invocations, completed, lay, fileNaming>>

AfterRenderFirstOnly(inv) ==
    IF Len(inv.barcodes) >= 1 \/ Len(inv.codes) = 0
    THEN [inv EXCEPT !.pc = "pack",
                     !.doc = WordDocument(inv.barcodes, columnsPerRowDefault)]
    ELSE inv

AfterRenderSharedBarcodes(inv) ==
    IF Len(inv.barcodes) = Len(inv.codes)
    THEN [inv EXCEPT !.pc = "pack",
                     !.doc = WordDocument(completed.barcodes \o inv.barcodes,
                                          columnsPerRowDefault)]
    ELSE inv

\* the for-of loop of createDocument is over: the rows are laid out and the
\* document is handed to Packer.toBuffer
AfterRender(inv) ==
    IF Len(inv.barcodes) = Len(inv.codes)
    THEN [inv EXCEPT !.pc = "pack",
                     !.doc = WordDocument(inv.barcodes, columnsPerRowDefault)]
    ELSE inv

\* the record of an invocation that has returned
Returned(inv, asked, dest, fsWrites, result) ==
    [pc |-> "done", format |-> inv.format, codes |-> inv.codes, errors |-> <<>>,
     barcodes |-> inv.barcodes, buffer |-> inv.buffer, asked |-> asked,
     dest |-> dest, fsWrites |-> fsWrites, result |-> result]

CaughtAsValidation(inv, asked, dest, fsWrites, message) ==
    Returned(inv, asked, dest, fsWrites, [success |-> FALSE, errors |-> <<message>>])

\* catch (err) { return { success: false, error: err.message } }
Caught(inv, asked, dest, fsWrites, message) ==
    Returned(inv, asked, dest, fsWrites, [success |-> FALSE, error |-> message])

ValidationFailedFirstOnly(format, codes, errors) ==
    [NoneCompleted EXCEPT !.pc = "done", !.format = format, !.codes = codes,
                          !.errors = errors,
                          !.result = [success |-> FALSE, errors |-> <<errors[1]>>]]

\* if (errors.length > 0) return { success: false, errors }
ValidationFailed(format, codes, errors) ==
    [NoneCompleted EXCEPT !.pc = "done", !.format = format, !.codes = codes,
                          !.errors = errors,
                          !.result = [success |-> FALSE, errors |-> errors]]

\* ipcMain.handle('generate-document', ...) up to its first await
GenerateDocument(slot, text, format) ==
    /\ invocations[slot].pc = "idle"
    /\ LET codes == ParseCodes(text)
           errors == validateCodes(codes)
       IN IF Len(errors) > 0
          THEN /\ completed' = ValidationFailed(format, codes, errors)
               /\ UNCHANGED invocations
          ELSE /\ invocations' = [invocations EXCEPT ![slot] =
                      AfterRender([IdleInvocation EXCEPT !.pc = "render",
                                       !.format = format, !.codes = codes])]
               /\ UNCHANGED completed
    /\ UNCHANGED <<codesText, mockSaveDialogResponse, lay, fileNaming>>

NextCodeFromEnd(inv) == inv.codes[Len(inv.codes) - Len(inv.barcodes)]

\* for (const code of codes): the code the loop is at once Len(inv.barcodes)
\* barcodes have been pushed
NextCode(inv) == inv.codes[Len(inv.barcodes) + 1]

\* await generateBarcode(code) resolves; barcodes.push({ code, buffer })
RenderResolve(slot) ==
    LET inv == invocations[slot]
    IN /\ inv.pc = "render"
       /\ invocations' = [invocations EXCEPT ![slot] =
              AfterRender([inv EXCEPT !.barcodes =
                  Append(@, Barcode(NextCode(inv)))])]
       /\ UNCHANGED <<codesText, mockSaveDialogResponse, completed, lay, fileNaming>>

\* await generateBarcode(code) rejects
RenderReject(slot) ==
    LET inv == invocations[slot]
    IN /\ inv.pc = "render"
       /\ completed' = Caught(inv, FALSE, NoDest, <<>>, RenderMessage)
       /\ invocations' = [invocations EXCEPT ![slot] = IdleInvocation]
       /\ UNCHANGED <<codesText, mockSaveDialogResponse, lay, fileNaming>>

PersistWriteUnchecked(inv, asked, response, writeOk) ==
    LET filePath == FilePathOf(response)
        canceled == response.canceled
    IN IF canceled \/ Falsy(filePath)
       THEN Returned(inv, asked, response, <<>>, [success |-> FALSE, canceled |-> TRUE])
       ELSE Returned(inv, asked, response,
                     <<[path |-> filePath, data |-> inv.buffer, ok |-> writeOk]>>,
                     [success |-> TRUE, filePath |-> filePath])

\* from `if (canceled || !filePath)` to the return
Persist(inv, asked, response, writeOk) ==
    LET filePath == FilePathOf(response)
        canceled == response.canceled
    IN IF canceled \/ Falsy(filePath)
       THEN Returned(inv, asked, response, <<>>, [success |-> FALSE, canceled |-> TRUE])
       ELSE IF writeOk
            THEN Returned(inv, asked, response,
                          <<[path |-> filePath, data |-> inv.buffer, ok |-> TRUE]>>,
                          [success |-> TRUE, filePath |-> filePath])
            ELSE Caught(inv, asked, response,
                        <<[path |-> filePath, data |-> inv.buffer, ok |-> FALSE]>>,
                        WriteMessage)

\* await createDocument(codes) resolves; the mock, when set, stands for the dialog
PackResolve(slot, writeOk) ==
    LET inv == invocations[slot]
        built == [inv EXCEPT !.buffer = PackerToBuffer(inv.doc)]
    IN /\ inv.pc = "pack"
       /\ IF mockSaveDialogResponse # Null
          THEN /\ completed' = Persist(built, FALSE, mockSaveDialogResponse, writeOk)
               /\ invocations' = [invocations EXCEPT ![slot] = IdleInvocation]
          ELSE /\ invocations' = [invocations EXCEPT ![slot] =
                      [built EXCEPT !.pc = "dialog"]]
               /\ UNCHANGED completed
       /\ UNCHANGED <<codesText, mockSaveDialogResponse, lay, fileNaming>>

\* Packer.toBuffer rejects
PackReject(slot) ==
    LET inv == invocations[slot]
    IN /\ inv.pc = "pack"
       /\ completed' = Caught(inv, FALSE, NoDest, <<>>, PackMessage)
       /\ invocations' = [invocations EXCEPT ![slot] = IdleInvocation]
       /\ UNCHANGED <<codesText, mockSaveDialogResponse, lay, fileNaming>>

\* await dialog.showSaveDialog(...) resolves
DialogResolve(slot, response, writeOk) ==
    LET inv == invocations[slot]
    IN /\ inv.pc = "dialog"
       /\ completed' = Persist(inv, TRUE, response, writeOk)
       /\ invocations' = [invocations EXCEPT ![slot] = IdleInvocation]
       /\ UNCHANGED <<codesText, mockSaveDialogResponse, lay, fileNaming>>

----------------------------------------------------------------------------
(* Specifications *)

LayOff == [pc |-> "off"]
NamingOff == [pc |-> "off"]

Init ==
    /\ codesText = <<>>
    /\ mockSaveDialogResponse = Null
    /\ invocations = [slot \in Slots |-> IdleInvocation]
    /\ completed = NoneCompleted
    /\ lay = LayOff
    /\ fileNaming = NamingOff

Next ==
    \/ \E q \in SampleRequests : ValidateCodes(q.text)
    \/ \E response \in MockResponses : SetMockSaveDialog(response)
    \/ ClearMockSaveDialog
    \/ \E slot \in Slots, q \in SampleRequests : GenerateDocument(slot, q.text, q.format)
    \/ \E slot \in Slots : RenderResolve(slot)
    \/ \E slot \in Slots : RenderReject(slot)
    \/ \E slot \in Slots, writeOk \in BOOLEAN : PackResolve(slot, writeOk)
    \/ \E slot \in Slots : PackReject(slot)
    \/ \E slot \in Slots, response \in DialogResults, writeOk \in BOOLEAN :
           DialogResolve(slot, response, writeOk)

Spec == Init /\ [][Next]_vars

\* the validation front end on every raw text up to MaxTextLen characters
InitValidate ==
    /\ codesText \in Texts
    /\ mockSaveDialogResponse \in {Null} \cup MockResponses
    /\ invocations = [slot \in Slots |-> IdleInvocation]
    /\ completed = NoneCompleted
    /\ lay = LayOff
    /\ fileNaming = NamingOff

NextValidate ==
    \/ ValidateCodes(codesText)
    \/ \E format \in Formats : GenerateDocument(1, codesText, format)

SpecValidate == InitValidate /\ [][NextValidate]_vars

----------------------------------------------------------------------------
(* Validation claims *)

\* a code "starts with the digit 0 immediately followed by another digit"
StartsZeroDigit(code) ==
    Len(code) >= 2 /\ SubSeq(code, 1, 2) \in {<<"0", d>> : d \in DigitChars}

FlaggedPositions(codes) == {i \in 1..Len(codes) : StartsZeroDigit(codes[i])}

\* the errors a response carries (none when it has no errors property)
ReportedErrors(response) ==
    IF "errors" \in DOMAIN response.result THEN response.result.errors ELSE <<>>

ErrorsMatch(codes, errors) ==
    /\ \A i \in 1..Len(codes) :
           Cardinality({k \in 1..Len(errors) : errors[k].line = i})
               = IF i \in FlaggedPositions(codes) THEN 1 ELSE 0
    /\ \A k \in 1..Len(errors) :
           /\ errors[k].line \in 1..Len(codes)
           /\ errors[k].code = codes[errors[k].line]
    /\ \A k \in 1..(Len(errors) - 1) : errors[k].line < errors[k + 1].line
    /\ Len(errors) = Cardinality(FlaggedPositions(codes))

\* C1: validateCodes returns exactly one error per code that starts with 0 and a
\* digit, carrying that code and line = 0-based index + 1, in ascending line
\* order, and no error for any other code; an invocation that went on to render
\* holds no such code.
C1_OneErrorPerLeadingZero ==
    /\ completed.pc # "none" => ErrorsMatch(completed.codes, ReportedErrors(completed))
    /\ \A slot \in Slots :
           invocations[slot].pc # "idle" => FlaggedPositions(invocations[slot].codes) = {}

\* a lone 0x is accepted and the 00 after it is reported as line 2
C1_Witness ==
    /\ completed.pc = "validated"
    /\ completed.codes = << <<"0", "x">>, <<"0", "0">> >>
    /\ Len(completed.result.errors) = 1
    /\ completed.result.errors[1].line = 2

\* the raw lines of a text, told apart by where they start
LineStarts(text) == {1} \cup {p + 1 : p \in {q \in 1..Len(text) : text[q] = LineBreak}}
LineEnd(text, s) ==
    LET breaks == {q \in s..Len(text) : text[q] = LineBreak}
    IN IF breaks = {} THEN Len(text)
       ELSE (CHOOSE q \in breaks : \A r \in breaks : q <= r) - 1
Visible(text, s) == {q \in s..LineEnd(text, s) : text[q] \notin WhiteSpace}
NonBlankStarts(text) == {s \in LineStarts(text) : Visible(text, s) # {}}
Rank(text, s) == Cardinality({t \in NonBlankStarts(text) : t <= s})
RawLineNumber(text, s) == Cardinality({t \in LineStarts(text) : t <= s})
Content(text, s) ==
    LET v == Visible(text, s)
    IN SubSeq(text, CHOOSE q \in v : \A r \in v : q <= r,
                    CHOOSE q \in v : \A r \in v : q >= r)

\* codes are the trimmed non-blank raw lines of the text, in order
CodesOfText(text, codes) ==
    /\ Len(codes) = Cardinality(NonBlankStarts(text))
    /\ \A s \in NonBlankStarts(text) : codes[Rank(text, s)] = Content(text, s)

\* C2: both handlers split the raw text on line breaks, trim every line and drop
\* the blank ones, keeping order; the line of an error is the 1-based position
\* of its code among the non-blank lines, and blank input gives no codes and no
\* errors.
C2_LinesCountNonBlankOnly ==
    /\ completed.pc # "none" =>
           /\ CodesOfText(codesText, completed.codes)
           /\ \A k \in 1..Len(ReportedErrors(completed)) :
                  \E s \in NonBlankStarts(codesText) :
                      /\ Rank(codesText, s) = ReportedErrors(completed)[k].line
                      /\ Content(codesText, s) = ReportedErrors(completed)[k].code
           /\ (\A q \in 1..Len(codesText) : codesText[q] \in WhiteSpace) =>
                  completed.codes = <<>> /\ ReportedErrors(completed) = <<>>
    /\ completed.pc = "validated" => completed.result.codes = completed.codes
    /\ invocations[1].pc # "idle" => CodesOfText(codesText, invocations[1].codes)

\* generate-document reports a code under a line number below its raw line number
C2_Witness ==
    /\ completed.pc = "done"
    /\ \E k \in 1..Len(ReportedErrors(completed)), s \in NonBlankStarts(codesText) :
           /\ Rank(codesText, s) = ReportedErrors(completed)[k].line
           /\ RawLineNumber(codesText, s) > ReportedErrors(completed)[k].line


\* C3: validateCodes is pure: a validate-codes call answers a list of codes it
\* has just answered with the identical errors, hands the list back as it got
\* it, and leaves the mock save-dialog variable and the running
\* generate-document invocations as they were.
C3_ValidatePure ==
    [][completed'.pc = "validated" =>
          /\ (completed.pc = "validated" /\ completed.codes = completed'.codes)
                 => completed' = completed
          /\ completed'.result.codes = completed'.codes
          /\ completed' # completed =>
                 /\ mockSaveDialogResponse' = mockSaveDialogResponse
                 /\ invocations' = invocations
                 /\ codesText' = codesText]_vars

\* a validation answered with errors while the mock is set and a generation runs
C3_Witness ==
    /\ completed.pc = "validated"
    /\ Len(completed.result.errors) = 2
    /\ mockSaveDialogResponse # Null
    /\ \E slot \in Slots : invocations[slot].pc = "render"

----------------------------------------------------------------------------
(* Claims about the generate-document pipeline *)

CanceledResult == [success |-> FALSE, canceled |-> TRUE]
ErrorResult(message) == [success |-> FALSE, error |-> message]

\* C4: validation comes before any rendering; a request with a failing code
\* returns { success: false, errors } holding every error, and it has rendered
\* no barcode, asked for no destination and written no file.
C4_ValidationBlocksPipeline ==
    /\ (completed.pc = "done" /\ FlaggedPositions(completed.codes) # {}) =>
           /\ DOMAIN completed.result = {"success", "errors"}
           /\ completed.result.success = FALSE
           /\ Len(completed.result.errors) = Cardinality(FlaggedPositions(completed.codes))
           /\ \A i \in FlaggedPositions(completed.codes) :
                  \E k \in 1..Len(completed.result.errors) :
                      completed.result.errors[k].line = i
           /\ completed.barcodes = <<>>
           /\ completed.buffer = NoBuffer
           /\ ~completed.asked
           /\ completed.dest = NoDest
           /\ completed.fsWrites = <<>>
    /\ \A slot \in Slots :
           invocations[slot].pc # "idle" => FlaggedPositions(invocations[slot].codes) = {}

\* a request with two failing codes has returned both
C4_Witness ==
    /\ completed.pc = "done"
    /\ "errors" \in DOMAIN completed.result
    /\ Len(completed.result.errors) = 2

\* the signature the container of a format starts with
SignatureOf(format) == IF format = "pdf" THEN PdfSignature ELSE ZipSignature

\* C5: a successful request for format f has written a buffer that starts with
\* the signature of f: PK for docx and xlsx, %PDF for pdf.
C5_BufferMatchesFormat ==
    (completed.pc = "done" /\ completed.result.success) =>
        /\ completed.fsWrites # <<>>
        /\ completed.fsWrites[1].data.head = SignatureOf(completed.format)

\* C6: a destination step that reports canceled or gives no file path ends the
\* request with exactly { success: false, canceled: true } and no file written.
C6_CanceledOutcome ==
    (/\ completed.pc = "done"
     /\ completed.dest # NoDest
     /\ (completed.dest.canceled \/ FilePathOf(completed.dest) \in {Undefined, ""})) =>
        /\ completed.result = CanceledResult
        /\ DOMAIN completed.result = {"success", "canceled"}
        /\ completed.fsWrites = <<>>

\* the destination gave an empty path without reporting canceled
C6_Witness ==
    /\ completed.pc = "done"
    /\ completed.dest = [filePath |-> "", canceled |-> FALSE]
    /\ completed.result = CanceledResult

\* C7: a request writes at most once, and only the buffer built from every
\* rendered barcode; a rendering or emission failure leaves nothing written.
C7_WriteOnceAfterBuild ==
    completed.pc = "done" =>
        /\ Len(completed.fsWrites) <= 1
        /\ completed.fsWrites # <<>> =>
               /\ Len(completed.barcodes) = Len(completed.codes)
               /\ \A k \in 1..Len(completed.codes) :
                      completed.barcodes[k].code = completed.codes[k]
               /\ completed.buffer # NoBuffer
               /\ completed.fsWrites[1].data = completed.buffer
        /\ (Len(completed.barcodes) < Len(completed.codes) \/ completed.buffer = NoBuffer)
               => completed.fsWrites = <<>>

\* a document of three codes has been written
C7_Witness ==
    /\ completed.pc = "done"
    /\ Len(completed.codes) = 3
    /\ Len(completed.fsWrites) = 1
    /\ completed.fsWrites[1].ok

\* the request passed validation
PassedValidation == completed.pc = "done" /\ FlaggedPositions(completed.codes) = {}

\* C8: a failure after validation (rendering any one code, emitting the
\* document, writing the buffer) ends the request with
\* { success: false, error: message of the failure }, never with success or
\* with validation errors.
C8_FailureSurfaced ==
    PassedValidation =>
        /\ Len(completed.barcodes) < Len(completed.codes)
               => completed.result = ErrorResult(RenderMessage)
        /\ (Len(completed.barcodes) = Len(completed.codes) /\ completed.buffer = NoBuffer)
               => completed.result = ErrorResult(PackMessage)
        /\ (completed.fsWrites # <<>> /\ ~completed.fsWrites[1].ok)
               => completed.result = ErrorResult(WriteMessage)
        /\ "error" \in DOMAIN completed.result
               => DOMAIN completed.result = {"success", "error"}

\* the second of three codes failed to render
C8_Witness ==
    /\ PassedValidation
    /\ Len(completed.codes) = 3
    /\ Len(completed.barcodes) = 1
    /\ completed.result = ErrorResult(RenderMessage)

\* C9: { success: true, filePath } is returned exactly when validation passed,
\* the document was built, the destination gave a non-empty path with canceled
\* false and the whole buffer was written to that path; every request ends in
\* exactly one of validation errors, canceled, error, success.
C9_SuccessIff ==
    completed.pc = "done" =>
        /\ completed.result.success <=>
               /\ FlaggedPositions(completed.codes) = {}
               /\ completed.buffer # NoBuffer
               /\ completed.dest # NoDest
               /\ ~completed.dest.canceled
               /\ FilePathOf(completed.dest) \notin {Undefined, ""}
               /\ completed.fsWrites = <<[path |-> completed.dest.filePath,
                                          data |-> completed.buffer, ok |-> TRUE]>>
        /\ completed.result.success =>
               completed.result = [success |-> TRUE, filePath |-> completed.dest.filePath]
        /\ \/ DOMAIN completed.result = {"success", "errors"} /\ ~completed.result.success
           \/ completed.result = CanceledResult
           \/ DOMAIN completed.result = {"success", "error"} /\ ~completed.result.success
           \/ DOMAIN completed.result = {"success", "filePath"} /\ completed.result.success

\* a request saved through the dialog to the second path
C9_Witness ==
    /\ completed.pc = "done"
    /\ completed.asked
    /\ completed.result = [success |-> TRUE, filePath |-> "b.pdf"]


----------------------------------------------------------------------------
(* The layout loops on every number of codes and every column count *)

SampleCodes == << <<"x", "0">>, <<"x", "1">>, <<"x">> >>

\* n codes; from the fourth on they repeat the first three
LayoutCodes(n) == [k \in 1..n |-> SampleCodes[((k - 1) % Len(SampleCodes)) + 1]]

\* createWordDocument(codes, columnsPerRow) up to the Document
CreateWordDocument ==
    /\ lay.pc # "off"
    /\ lay' = [pc |-> "word", codes |-> lay.codes, columnsPerRow |-> lay.columnsPerRow,
               out |-> WordDocument(RenderAll(lay.codes), lay.columnsPerRow)]
    /\ UNCHANGED <<codesText, mockSaveDialogResponse, invocations, completed, fileNaming>>

\* createPdfDocument(codes, columnsPerRow) up to doc.end()
CreatePdfDocument ==
    /\ lay.pc # "off"
    /\ lay' = [pc |-> "pdf", codes |-> lay.codes, columnsPerRow |-> lay.columnsPerRow,
               out |-> PdfLayout(RenderAll(lay.codes), lay.columnsPerRow)]
    /\ UNCHANGED <<codesText, mockSaveDialogResponse, invocations, completed, fileNaming>>

\* createExcelDocument(codes, columnsPerRow) up to writeBuffer()
CreateExcelDocument ==
    /\ lay.pc # "off"
    /\ lay' = [pc |-> "excel", codes |-> lay.codes, columnsPerRow |-> lay.columnsPerRow,
               out |-> ExcelLayout(RenderAll(lay.codes), lay.columnsPerRow)]
    /\ UNCHANGED <<codesText, mockSaveDialogResponse, invocations, completed, fileNaming>>

InitLayout ==
    /\ codesText = <<>>
    /\ mockSaveDialogResponse = Null
    /\ invocations = [slot \in Slots |-> IdleInvocation]
    /\ completed = NoneCompleted
    /\ \E n \in 0..MaxCodes, columnsPerRow \in 1..MaxColumns :
           lay = [pc |-> "ready", codes |-> LayoutCodes(n),
                  columnsPerRow |-> columnsPerRow, out |-> NoDoc]
    /\ fileNaming = NamingOff

NextLayout ==
    \/ CreateWordDocument
    \/ CreatePdfDocument
    \/ CreateExcelDocument

SpecLayout == InitLayout /\ [][NextLayout]_vars

\* the barcode cells of the Word table, each with its 0-based row and column
WordPlaced(rows) ==
    UNION {{[row |-> r - 1, col |-> c - 1, cell |-> rows[r][c]] : c \in 1..Len(rows[r])} :
               r \in 1..Len(rows)}

\* the 0-based grid row of the k-th drawn PDF item: the number of row positions
\* (page, y) drawn before its own
PdfRowOf(placements, k) ==
    Cardinality({<<placements[m].page, placements[m].imageY>> : m \in 1..k}) - 1

\* an item sequence is the input in order: item k is input index k - 1, all placed
InInputOrder(placements, codes) ==
    /\ Len(placements) = Len(codes)
    /\ \A k \in 1..Len(placements) :
           /\ placements[k].idx = k - 1
           /\ placements[k].code = codes[k]
           /\ placements[k].image = Png(codes[k])

\* C10: in the Word, PDF and Excel loops the item at grid (row, column) is the
\* input item row * columnsPerRow + column with 0 <= column < columnsPerRow;
\* items are placed in increasing input index, each exactly once, and no two at
\* the same (page, row, column).
C10_RowMajorPlacement ==
    LET n == Len(lay.codes)
        cols == lay.columnsPerRow
    IN /\ lay.pc = "word" =>
              LET placed == {p \in WordPlaced(lay.out.rows) : p.cell.kind = "barcode"}
              IN /\ \A r \in 1..Len(lay.out.rows) : Len(lay.out.rows[r]) = cols
                 /\ \A p \in placed :
                        /\ p.cell.idx = p.row * cols + p.col
                        /\ p.cell.text = lay.codes[p.cell.idx + 1]
                        /\ p.cell.image.data = Png(lay.codes[p.cell.idx + 1])
                 /\ \A k \in 0..(n - 1) :
                        Cardinality({p \in placed : p.cell.idx = k}) = 1
                 /\ Cardinality(placed) = n
       /\ lay.pc = "pdf" =>
              LET ps == lay.out.placements
              IN /\ InInputOrder(ps, lay.codes)
                 /\ \A k \in 1..Len(ps) :
                        /\ ps[k].col \in 0..(cols - 1)
                        /\ ps[k].idx = PdfRowOf(ps, k) * cols + ps[k].col
                 /\ \A k, m \in 1..Len(ps) :
                        (/\ ps[k].page = ps[m].page
                         /\ ps[k].imageY = ps[m].imageY
                         /\ ps[k].col = ps[m].col) => k = m
       /\ lay.pc = "excel" =>
              LET ps == lay.out.placements
              IN /\ InInputOrder(ps, lay.codes)
                 /\ \A k \in 1..Len(ps) :
                        /\ ps[k].textCol - 1 \in 0..(cols - 1)
                        /\ ps[k].textRow % 2 = 0
                        /\ ps[k].idx = ((ps[k].textRow - 2) \div 2) * cols + (ps[k].textCol - 1)
                        /\ ps[k].imageColTenths = 10 * (ps[k].textCol - 1) + 1
                        /\ ps[k].imageRowTenths = 10 * (ps[k].textRow - 2) + 1
                 /\ \A k, m \in 1..Len(ps) :
                        (ps[k].textRow = ps[m].textRow /\ ps[k].textCol = ps[m].textCol)
                            => k = m

\* a PDF of 16 codes in one column: the 16th item follows a page break
C10_Witness ==
    /\ lay.pc = "pdf"
    /\ lay.columnsPerRow = 1
    /\ Len(lay.out.placements) = 16
    /\ lay.out.placements[16].page = 2
    /\ lay.out.placements[15].page = 2
    /\ lay.out.placements[14].page = 1

----------------------------------------------------------------------------
(* Shape of the grids *)

\* the least whole number of rows of c cells that hold n items
CeilDiv(n, c) == (n + c - 1) \div c

\* the cells of a Word table that hold no barcode
Placeholders(rows) == {p \in WordPlaced(rows) : p.cell.kind # "barcode"}

\* C11: the Word table of n codes in c columns has exactly ceil(n / c) rows of
\* exactly c cells each; the cells without a barcode are exactly the
\* (c - n mod c) mod c cells at the end of the last row; every cell, occupied
\* or not, is 1543 wide and has no visible border on any side.
C11_WordGridShape ==
    lay.pc = "word" =>
        LET n == Len(lay.codes)
            c == lay.columnsPerRow
            rows == lay.out.rows
            pad == (c - (n % c)) % c
        IN /\ Len(rows) = CeilDiv(n, c)
           /\ \A r \in 1..Len(rows) : DOMAIN rows[r] = 1..c
           /\ Cardinality(Placeholders(rows)) = pad
           /\ \A p \in Placeholders(rows) :
                  p.row = Len(rows) - 1 /\ p.col \in (c - pad)..(c - 1)
           /\ \A p \in WordPlaced(rows) :
                  /\ p.cell.width = 1543
                  /\ \A side \in {"top", "bottom", "left", "right"} :
                         p.cell.borders[side].style = "none"

\* ten codes in seven columns: the second row ends in four placeholder cells
C11_Witness ==
    /\ lay.pc = "word"
    /\ Len(lay.codes) = 10
    /\ lay.columnsPerRow = 7
    /\ Len(lay.out.rows) = 2
    /\ lay.out.rows[2][3].kind = "barcode"
    /\ \A col \in 4..7 : lay.out.rows[2][col].kind = "empty"

\* the rows of a PDF layout drawn on one page, by their position in out.rows
RowsOnPage(rows, page) == {r \in 1..Len(rows) : rows[r].page = page}

\* C12: with page height 792, margin 36 and row height 50 a PDF page holds at
\* most floor((792 - 72) / 50) = 14 rows; doc.addPage() comes before a row
\* exactly when the row drawn at the current vertical position would pass the
\* bottom margin (position + 50 > 792 - 36); the first row of every page, the
\* first page included, is drawn at the top margin 36, and every other row 50
\* below the row before it on the same page.
C12_PdfPagination ==
    lay.pc = "pdf" =>
        LET rows == lay.out.rows
        IN /\ \A page \in 1..lay.out.pages : Cardinality(RowsOnPage(rows, page)) <= 14
           /\ (720 \div 50) = 14
           /\ \A r \in 1..Len(rows) :
                  /\ rows[r].addPage <=> (rows[r].yBefore + 50 > 792 - 36)
                  /\ rows[r].page = (IF r = 1 THEN 1 ELSE rows[r - 1].page)
                                        + (IF rows[r].addPage THEN 1 ELSE 0)
                  /\ (r = 1 \/ rows[r].addPage) => rows[r].y = 36
                  /\ (r > 1 /\ ~rows[r].addPage) => rows[r].y = rows[r - 1].y + 50
                  /\ rows[r].y + 50 <= 792 - 36
           /\ lay.out.pages = (IF rows = <<>> THEN 1 ELSE rows[Len(rows)].page)

\* fifteen rows: the fourteenth ends at 736 on page 1, the fifteenth opens page 2
C12_Witness ==
    /\ lay.pc = "pdf"
    /\ Len(lay.out.rows) = 15
    /\ lay.out.rows[14] = [page |-> 1, y |-> 686, addPage |-> FALSE, yBefore |-> 686]
    /\ lay.out.rows[15] = [page |-> 2, y |-> 36, addPage |-> TRUE, yBefore |-> 736]
    /\ Cardinality(RowsOnPage(lay.out.rows, 1)) = 14

\* C13: 21 codes in 7 columns give exactly 3 rows of 7 occupied cells and no
\* placeholder cell in the Word table, and the PDF layout draws its 3 rows of
\* 7 items on a single page, with no page break.
C13_TwentyOneInSeven ==
    (Len(lay.codes) = 21 /\ lay.columnsPerRow = 7) =>
        /\ lay.pc = "word" =>
               /\ Len(lay.out.rows) = 3
               /\ \A r \in 1..3 :
                      /\ Len(lay.out.rows[r]) = 7
                      /\ \A col \in 1..7 : lay.out.rows[r][col].kind = "barcode"
               /\ Placeholders(lay.out.rows) = {}
        /\ lay.pc = "pdf" =>
               /\ Len(lay.out.rows) = 3
               /\ lay.out.pages = 1
               /\ \A r \in 1..3 :
                      /\ lay.out.rows[r].page = 1
                      /\ ~lay.out.rows[r].addPage
                      /\ Cardinality({k \in 1..Len(lay.out.placements) :
                             lay.out.placements[k].imageY = lay.out.rows[r].y}) = 7
               /\ \A k \in 1..Len(lay.out.placements) : lay.out.placements[k].page = 1

\* the Word table of 21 codes in 7 columns, its last cell holding the 21st code
C13_Witness ==
    /\ lay.pc = "word"
    /\ Len(lay.codes) = 21
    /\ lay.columnsPerRow = 7
    /\ lay.out.rows[3][7].kind = "barcode"
    /\ lay.out.rows[3][7].idx = 20

\* raw texts that hold no code: empty, or white space and line breaks only
BlankTexts == {<<>>, <<" ">>, <<LineBreak>>, <<" ", LineBreak>>, <<LineBreak, " ", LineBreak>>}

\* C14: a request with zero codes (empty or all-blank text) passes validation
\* and is not turned away by the generate-document handler: it reaches the
\* layout with no await on a render, the layout yields zero rows, zero
\* placements and zero placeholder cells on a single page or sheet with no
\* page break, and the request can fail only where the package is emitted or
\* written, never in the layout.
C14_ZeroCodesLayout ==
    /\ \A text \in BlankTexts :
           ParseCodes(text) = <<>> /\ validateCodes(ParseCodes(text)) = <<>>
    /\ \A slot \in Slots :
           LET inv == invocations[slot]
           IN (inv.pc # "idle" /\ inv.codes = <<>>) =>
                  /\ inv.pc \in {"pack", "dialog"}
                  /\ inv.barcodes = <<>>
                  /\ inv.doc.type = "Document"
                  /\ inv.doc.rows = <<>>
                  /\ Placeholders(inv.doc.rows) = {}
    /\ (completed.pc = "done" /\ completed.codes = <<>>) =>
           /\ "errors" \notin DOMAIN completed.result
           /\ completed.barcodes = <<>>
           /\ "error" \in DOMAIN completed.result =>
                  completed.result.error \in {PackMessage, WriteMessage}
           /\ completed.buffer # NoBuffer => completed.buffer.doc.rows = <<>>
    /\ \A c \in 1..MaxColumns :
           /\ WordRows(<<>>, c) = <<>>
           /\ PdfLayout(<<>>, c) = [placements |-> <<>>, rows |-> <<>>, pages |-> 1]
           /\ ExcelLayout(<<>>, c) = [placements |-> <<>>, heights |-> <<>>, pages |-> 1]

\* an all-blank request written to disk as a document with an empty table
C14_Witness ==
    /\ completed.pc = "done"
    /\ completed.codes = <<>>
    /\ completed.result = [success |-> TRUE, filePath |-> "a.docx"]
    /\ completed.buffer.doc.rows = <<>>
    /\ Len(completed.fsWrites) = 1

\* the columns drawn in the grid row of the k-th placement of a PDF or Excel
\* layout, the placements of one grid row sharing their (page, y) or sheet row
PdfRowColumns(ps, k) ==
    {ps[m].col : m \in {q \in 1..Len(ps) :
                            ps[q].page = ps[k].page /\ ps[q].imageY = ps[k].imageY}}
ExcelRowColumns(ps, k) ==
    {ps[m].textCol - 1 : m \in {q \in 1..Len(ps) : ps[q].textRow = ps[k].textRow}}

\* the columns of every grid row but the last are 0..c-1 and those of the last
\* are 0..m-1 with m = n - c * (ceil(n / c) - 1), for n placements
ShortLastRowOnly(n, c, rowColumns(_)) ==
    LET m == n - c * (CeilDiv(n, c) - 1)
    IN \A k \in 1..n :
           rowColumns(k) = IF k > n - m THEN 0..(m - 1) ELSE 0..(c - 1)

\* C20: the PDF and Excel layouts do not pad a short last row: n codes give
\* exactly n placements, each one image with its one label, each of an input
\* code; the last row holds n - c * (ceil(n / c) - 1) items in the columns from
\* 0 on without a gap; the PDF draws ceil(n / c) rows and the sheet sets 2
\* row heights per grid row, and nothing stands in the unused columns.
C20_NoPaddingPdfExcel ==
    LET n == Len(lay.codes)
        c == lay.columnsPerRow
        ps == lay.out.placements
    IN /\ lay.pc \in {"pdf", "excel"} =>
              /\ Len(ps) = n
              /\ \A k \in 1..Len(ps) :
                     /\ ps[k].code = lay.codes[k]
                     /\ ps[k].image = [bcid |-> "code128", text |-> lay.codes[k]]
       /\ lay.pc = "pdf" =>
              /\ Len(lay.out.rows) = CeilDiv(n, c)
              /\ ShortLastRowOnly(n, c, LAMBDA k : PdfRowColumns(ps, k))
       /\ lay.pc = "excel" =>
              /\ Len(lay.out.heights) = 2 * CeilDiv(n, c)
              /\ ShortLastRowOnly(n, c, LAMBDA k : ExcelRowColumns(ps, k))

\* a sheet of ten codes in seven columns: the second grid row holds three
\* items, in the first three columns
C20_Witness ==
    /\ lay.pc = "excel"
    /\ Len(lay.codes) = 10
    /\ lay.columnsPerRow = 7
    /\ Len(lay.out.placements) = 10
    /\ ExcelRowColumns(lay.out.placements, 10) = {0, 1, 2}
    /\ lay.out.placements[10].textRow = 4

----------------------------------------------------------------------------
(* Requests against each other *)

\* the layouts the state holds: one per invocation past createDocument's loops
\* and one for the returned request whose document was built
LaidOut ==
    {[codes |-> invocations[slot].codes, doc |-> invocations[slot].doc] :
         slot \in {sl \in Slots : invocations[sl].pc \in {"pack", "dialog"}}}
    \cup (IF completed.pc = "done" /\ completed.buffer # NoBuffer
          THEN {[codes |-> completed.codes, doc |-> completed.buffer.doc]}
          ELSE {})

\* the (item, row, column) sequence of a Word document, in row-major order;
\* a placeholder cell shows as the empty item
PlacementSequence(doc) ==
    [r \in 1..Len(doc.rows) |->
        [col \in 1..Len(doc.rows[r]) |->
            IF doc.rows[r][col].kind = "barcode"
            THEN <<doc.rows[r][col].text, r - 1, col - 1>>
            ELSE <<<<>>, r - 1, col - 1>>]]

C17_NoCarriedState ==
    (completed.pc = "done" /\ completed.dest # NoDest) => completed.asked

\* the result a returned request must carry, from its own record alone
ExpectedResult(c) ==
    IF c.errors # <<>> THEN [success |-> FALSE, errors |-> c.errors]
    ELSE IF c.dest = NoDest
         THEN IF Len(c.barcodes) < Len(c.codes)
              THEN ErrorResult(RenderMessage) ELSE ErrorResult(PackMessage)
         ELSE IF c.dest.canceled \/ Falsy(FilePathOf(c.dest)) THEN CanceledResult
              ELSE IF Len(c.fsWrites) = 1 /\ c.fsWrites[1].ok
                   THEN [success |-> TRUE, filePath |-> c.dest.filePath]
                   ELSE ErrorResult(WriteMessage)

\* a returned record c holds nothing but what the invocation inv had of its
\* own, and its destination is its own dialog's result or the mock in force
OwnOutcome(c, inv, mock) ==
    /\ c.codes = inv.codes /\ c.format = inv.format /\ c.errors = <<>>
    /\ c.barcodes = inv.barcodes
    /\ Len(c.barcodes) <= Len(c.codes)
    /\ \A k \in 1..Len(c.barcodes) : c.barcodes[k] = [code |-> c.codes[k], buffer |-> Png(c.codes[k])]
    /\ c.buffer # NoBuffer =>
           /\ Len(c.barcodes) = Len(c.codes)
           /\ c.buffer.doc = inv.doc
           /\ \A p \in WordPlaced(c.buffer.doc.rows) :
                  p.cell.kind = "barcode" => p.cell.text \in {c.codes[k] : k \in 1..Len(c.codes)}
           /\ Cardinality({p \in WordPlaced(c.buffer.doc.rows) : p.cell.kind = "barcode"})
                  = Len(c.codes)
    /\ c.asked => inv.pc = "dialog" /\ c.dest \in DialogResults
    /\ (~c.asked /\ c.dest # NoDest) => inv.pc = "pack" /\ mock # Null /\ c.dest = mock
    /\ c.result = ExpectedResult(c)

\* C17, amended: mockSaveDialogResponse is the one value that crosses requests.
\* Whenever a generation request returns, its record and its result are
\* determined by its own codes, its own rendered barcodes and document, the
\* failures of its own steps and its destination response, which is the value
\* of mockSaveDialogResponse at the moment its document has been built when
\* that value is not null, and the result of its own save dialog otherwise.
C17_OnlyMockCarried ==
    [][(completed' # completed /\ completed'.pc = "done") =>
           \/ /\ UNCHANGED invocations
              /\ \E q \in SampleRequests :
                     /\ completed'.codes = ParseCodes(q.text)
                     /\ completed'.format = q.format
                     /\ completed'.errors # <<>>
                     /\ completed' = [NoneCompleted EXCEPT !.pc = "done",
                            !.format = q.format, !.codes = ParseCodes(q.text),
                            !.errors = completed'.errors,
                            !.result = ExpectedResult(completed')]
           \/ \E slot \in Slots :
                  /\ invocations[slot].pc # "idle"
                  /\ invocations'[slot].pc = "idle"
                  /\ \A other \in Slots \ {slot} : invocations'[other] = invocations[other]
                  /\ OwnOutcome(completed', invocations[slot], mockSaveDialogResponse)
      ]_vars

\* a request that never asked its dialog and was canceled by the mock an
\* earlier e2e request had set, seen after the mock has been cleared again
C17_Witness ==
    /\ completed.pc = "done"
    /\ ~completed.asked
    /\ completed.dest = [canceled |-> TRUE]
    /\ completed.result = CanceledResult
    /\ Len(completed.codes) = 3
    /\ mockSaveDialogResponse = Null

\* the generate-document invocations between their start and their return
InFlight == {slot \in Slots : invocations[slot].pc # "idle"}

\* C18: generation requests are serialized: while a generate-document request
\* is between its start and its returned result no second generate-document
\* request starts and no e2e set-mock or clear-mock request changes the
\* destination the first will use.
C18_RequestsSerialized ==
    [][InFlight # {} =>
           /\ InFlight' \subseteq InFlight
           /\ mockSaveDialogResponse' = mockSaveDialogResponse]_vars

\* the barcodes of an invocation are its first codes, in order, one apiece
RenderedPrefix(inv) ==
    /\ Len(inv.barcodes) <= Len(inv.codes)
    /\ \A k \in 1..Len(inv.barcodes) :
           /\ inv.barcodes[k].code = inv.codes[k]
           /\ inv.barcodes[k].buffer = [bcid |-> "code128", text |-> inv.codes[k]]

\* C19: barcodes are rendered one at a time in input order: every step of a
\* request adds at most one barcode, the one of the next code, after all the
\* barcodes before it; the layout begins only once every code is rendered, on
\* a list of the same length and order as the codes, duplicates kept and
\* nothing sorted, and the list no longer changes after that.
C19_SequentialRender ==
    [][\A slot \in Slots :
           LET inv == invocations[slot]
               nxt == invocations'[slot]
           IN /\ RenderedPrefix(nxt)
              /\ nxt.pc = "render" => nxt.doc = NoDoc /\ Len(nxt.barcodes) < Len(nxt.codes)
              /\ nxt.pc \in {"pack", "dialog"} =>
                     /\ Len(nxt.barcodes) = Len(nxt.codes)
                     /\ nxt.doc # NoDoc
                     /\ \A p \in WordPlaced(nxt.doc.rows) :
                            p.cell.kind = "barcode" =>
                                p.cell.text = nxt.codes[p.row * columnsPerRowDefault + p.col + 1]
              /\ (inv.pc = "render" /\ nxt.pc # "idle") =>
                     /\ nxt.codes = inv.codes
                     /\ Len(nxt.barcodes) \in {Len(inv.barcodes), Len(inv.barcodes) + 1}
                     /\ SubSeq(nxt.barcodes, 1, Len(inv.barcodes)) = inv.barcodes
              /\ (inv.pc \in {"pack", "dialog"} /\ nxt.pc # "idle") =>
                     nxt.barcodes = inv.barcodes /\ nxt.doc = inv.doc
      ]_vars

\* two equal codes rendered, both kept, and the third, which sorts before
\* them, still to come
C19_Witness ==
    /\ invocations[1].pc = "render"
    /\ Len(invocations[1].codes) = 3
    /\ Len(invocations[1].barcodes) = 2
    /\ invocations[1].barcodes[1] = invocations[1].barcodes[2]
    /\ invocations[1].codes[3] # invocations[1].codes[1]
    /\ invocations[1].doc = NoDoc

----------------------------------------------------------------------------
(* The default file name offered in the save dialog *)

\* an instant is a whole number of hours since 1970-01-01T00:00:00Z; a zone is
\* the whole number of hours local time is ahead of UTC
Instants == 0..(MaxHours - 1)
ZoneOffsets == -12..14

Digits == <<"0", "1", "2", "3", "4", "5", "6", "7", "8", "9">>
Pad2(k) == <<Digits[(k \div 10) + 1], Digits[(k % 10) + 1]>>
Pad4(k) == Pad2(k \div 100) \o Pad2(k % 100)

\* the calendar date of a day number (days since 1970-01-01), for the days
\* from December 1969 to January 1970
CalendarDate(dayNumber) ==
    IF dayNumber < 0
    THEN [year |-> 1969, month |-> 12, day |-> 32 + dayNumber]
    ELSE [year |-> 1970, month |-> 1, day |-> 1 + dayNumber]

DateChars(date) == Pad4(date.year) \o <<"-">> \o Pad2(date.month) \o <<"-">> \o Pad2(date.day)

\* now.toISOString(): YYYY-MM-DDTHH:mm:ss.sssZ, always in UTC
ToISOString(now) ==
    DateChars(CalendarDate(now \div 24))
        \o <<"T">> \o Pad2(now % 24)
        \o <<":", "0", "0", ":", "0", "0", ".", "0", "0", "0", "Z">>

\* now.toTimeString(): HH:MM:SS GMT+hhmm, in the local time zone
ToTimeString(now, offset) ==
    Pad2((now + offset) % 24)
        \o <<":", "0", "0", ":", "0", "0", " ", "G", "M", "T">>
        \o <<IF offset < 0 THEN "-" ELSE "+">>
        \o Pad2(IF offset < 0 THEN 0 - offset ELSE offset) \o <<"0", "0">>

\* s.slice(0, k)
SliceTo(s, k) == SubSeq(s, 1, IF k < Len(s) THEN k ELSE Len(s))

\* s.replace(/:/g, '-')
ReplaceColons(s) == [k \in 1..Len(s) |-> IF s[k] = ":" THEN "-" ELSE s[k]]

Chars(str) ==
    CASE str = "barcode_" -> <<"b", "a", "r", "c", "o", "d", "e", "_">>
      [] str = ".docx" -> <<".", "d", "o", "c", "x">>
      [] str = ".pdf" -> <<".", "p", "d", "f">>
      [] str = ".xlsx" -> <<".", "x", "l", "s", "x">>

\* const dateStr = ...; const timeStr = ...;
\* const defaultFilename = `barcode_${dateStr}_${timeStr}.docx`
DefaultFilename(now, offset) ==
    LET dateStr == SliceTo(ToISOString(now), 10)
        timeStr == ReplaceColons(SliceTo(ToTimeString(now, offset), 8))
    IN Chars("barcode_") \o dateStr \o <<"_">> \o timeStr \o Chars(".docx")

\* the handler reaches `const now = new Date()` for a request of some format
\* and names the file it passes to the dialog as defaultPath
NameFile ==
    /\ fileNaming.pc = "ready"
    /\ fileNaming' = [fileNaming EXCEPT !.pc = "named",
                          !.defaultFilename = DefaultFilename(fileNaming.now, fileNaming.offset)]
    /\ UNCHANGED <<codesText, mockSaveDialogResponse, invocations, completed, lay>>

\* every instant of the modelled hours, in every time zone, for every format
InitFilename ==
    /\ codesText = <<>>
    /\ mockSaveDialogResponse = Null
    /\ invocations = [slot \in Slots |-> IdleInvocation]
    /\ completed = NoneCompleted
    /\ lay = LayOff
    /\ \E now \in Instants, offset \in ZoneOffsets, format \in Formats :
           fileNaming = [pc |-> "ready", now |-> now, offset |-> offset,
                         format |-> format, defaultFilename |-> <<>>]

NextFilename == NameFile

SpecFilename == InitFilename /\ [][NextFilename]_vars

\* the local calendar date and time of day of an instant in a zone
LocalDateChars(now, offset) == DateChars(CalendarDate((now + offset) \div 24))
LocalTimeChars(now, offset) == Pad2((now + offset) % 24) \o <<"-", "0", "0", "-", "0", "0">>

\* C16: the default file name is barcode_<YYYY-MM-DD>_<HH-MM-SS>.<ext> where
\* the date and the time are both the local date and time of the instant of
\* generation, in every time zone, and ext is the extension of the requested
\* format.
C16_DefaultFilenameLocal ==
    fileNaming.pc = "named" =>
        fileNaming.defaultFilename =
            Chars("barcode_") \o LocalDateChars(fileNaming.now, fileNaming.offset)
                \o <<"_">> \o LocalTimeChars(fileNaming.now, fileNaming.offset)
                \o (CASE fileNaming.format = "docx" -> Chars(".docx")
                      [] fileNaming.format = "pdf" -> Chars(".pdf")
                      [] fileNaming.format = "xlsx" -> Chars(".xlsx"))

----------------------------------------------------------------------------
(* Positions within the grids *)

\* comparisons of exact quotients with positive denominators
FracEq(a, b) == a.num * b.den = b.num * a.den
FracLeq(a, b) == a.num * b.den <= b.num * a.den
FracAdd(a, b) == [num |-> a.num * b.den + b.num * a.den, den |-> a.den * b.den]

\* C21: in the PDF layout the cell of the item at input index k, with c
\* columns, has its origin at x = 36 + (k mod c) * cellWidth and
\* y = 36 + (floor(k / c) mod 14) * 50 with cellWidth = (612 - 72) / c, and the
\* cell lies within the margins: 36 <= x, x + cellWidth <= 612 - 36 and
\* y + 50 <= 792 - 36.
C21_PdfCellOrigin ==
    lay.pc = "pdf" =>
        LET c == lay.columnsPerRow
            ps == lay.out.placements
            cw == [num |-> 612 - 72, den |-> c]
        IN \A m \in 1..Len(ps) :
               LET k == m - 1
               IN /\ ps[m].idx = k
                  /\ FracEq(ps[m].x, [num |-> 36 * c + (k % c) * (612 - 72), den |-> c])
                  /\ ps[m].imageY = 36 + ((k \div c) % 14) * 50
                  /\ FracEq(ps[m].textWidth, cw)
                  /\ FracLeq([num |-> 36, den |-> 1], ps[m].x)
                  /\ FracLeq(FracAdd(ps[m].x, cw), [num |-> 612 - 36, den |-> 1])
                  /\ ps[m].imageY + 50 <= 792 - 36

\* 21 codes in one column: the item of input index 20 is in row 20 mod 14 = 6
\* of the second page, the item of input index 13 in the last row of the first
C21_Witness ==
    /\ lay.pc = "pdf"
    /\ lay.columnsPerRow = 1
    /\ Len(lay.out.placements) = 21
    /\ lay.out.placements[21].x = [num |-> 36, den |-> 1]
    /\ lay.out.placements[21].imageY = 336
    /\ lay.out.placements[21].page = 2
    /\ lay.out.placements[14].imageY = 686

\* the horizontal gaps, in tenths of a pixel, left and right of the image of a
\* sheet placement within its column: the anchor is imageColTenths tenths of a
\* column from the sheet's left edge and the column is excelColumnPixels wide
ExcelLeftGap(p) == (p.imageColTenths - 10 * (p.textCol - 1)) * excelColumnPixels
ExcelRightGap(p) == 10 * excelColumnPixels - ExcelLeftGap(p) - 10 * p.imageWidth

\* C22: in every format the image is centered horizontally in its cell, the
\* gap left of it equal to the gap right of it (imageX = cellX +
\* (cellWidth - imageWidth) / 2), and the label is centered in the same cell
\* directly beneath the image at a fixed gap: in the Word cells, in the PDF
\* cells, and in the sheet cells with the image anchored at column j + 0.1
\* and 85 wide.
C22_ImageCentered ==
    /\ lay.pc = "word" =>
           \A p \in WordPlaced(lay.out.rows) :
               p.cell.kind = "barcode" =>
                   /\ p.cell.imageAlignment = "center"
                   /\ p.cell.textAlignment = "center"
                   /\ p.cell.margins.left = p.cell.margins.right
                   /\ p.cell.textSpacingBefore = 20
    /\ lay.pc = "pdf" =>
           LET c == lay.columnsPerRow
               ps == lay.out.placements
           IN \A m \in 1..Len(ps) :
                  /\ FracEq(ps[m].imageX,
                            FracAdd(ps[m].x, [num |-> (612 - 72) - 63 * c, den |-> 2 * c]))
                  /\ ps[m].imageWidth = 63
                  /\ ps[m].textX = ps[m].x
                  /\ FracEq(ps[m].textWidth, [num |-> 612 - 72, den |-> c])
                  /\ ps[m].align = "center"
                  /\ ps[m].textY = ps[m].imageY + 26 + 2
    /\ lay.pc = "excel" =>
           LET ps == lay.out.placements
           IN \A m \in 1..Len(ps) :
                  /\ ps[m].imageColTenths = 10 * (ps[m].textCol - 1) + 1
                  /\ ps[m].imageWidth = 85
                  /\ ExcelLeftGap(ps[m]) = ExcelRightGap(ps[m])
                  /\ ps[m].align = "center"
                  /\ 10 * (ps[m].textRow - 1) = ps[m].imageRowTenths + 9

\* the 1-based sheet row an image is anchored in: anchors count rows from 0 in
\* tenths of a row
ImageSheetRow(p) == (p.imageRowTenths \div 10) + 1

\* C23: in the sheet each 0-based grid row r takes the two sheet rows 2r + 1
\* (images) and 2r + 2 (labels): the item of input index k in c columns has
\* its image anchored in sheet row 2 * floor(k / c) + 1 and its label in the
\* cell of sheet row 2 * floor(k / c) + 2 and sheet column (k mod c) + 1; no
\* two items write the same label cell, no image row is a label row, and the
\* loop sets the heights of exactly these rows, 45 then 15 for each grid row.
C23_SheetRowPairs ==
    lay.pc = "excel" =>
        LET c == lay.columnsPerRow
            ps == lay.out.placements
            imageRows == {ImageSheetRow(ps[m]) : m \in 1..Len(ps)}
            labelRows == {ps[m].textRow : m \in 1..Len(ps)}
        IN /\ \A m \in 1..Len(ps) :
                  LET k == m - 1
                  IN /\ ps[m].idx = k
                     /\ ImageSheetRow(ps[m]) = 2 * (k \div c) + 1
                     /\ ps[m].textRow = 2 * (k \div c) + 2
                     /\ ps[m].textCol = (k % c) + 1
                     /\ ps[m].textRow = ImageSheetRow(ps[m]) + 1
           /\ \A m, q \in 1..Len(ps) :
                  (ps[m].textRow = ps[q].textRow /\ ps[m].textCol = ps[q].textCol) => m = q
           /\ imageRows \cap labelRows = {}
           /\ imageRows \cup labelRows = 1..(2 * CeilDiv(Len(ps), c))
           /\ Len(lay.out.heights) = 2 * CeilDiv(Len(ps), c)
           /\ \A h \in 1..Len(lay.out.heights) :
                  lay.out.heights[h] = IF h % 2 = 1 THEN 45 ELSE 15

\* a sheet of 21 codes in 7 columns: the last item has its image in sheet row
\* 5 and its label in the cell of row 6, column 7
C23_Witness ==
    /\ lay.pc = "excel"
    /\ lay.columnsPerRow = 7
    /\ Len(lay.out.placements) = 21
    /\ ImageSheetRow(lay.out.placements[21]) = 5
    /\ lay.out.placements[21].textRow = 6
    /\ lay.out.placements[21].textCol = 7
    /\ lay.out.placements[8].textRow = 4

====
